---- MODULE Spec2Model ----
(***************************************************************************)
(* A model of asdl_adt (src/src/asdl_adt/adt.py): the ADT builder that     *)
(* turns an ASDL grammar into a module of classes, the generated           *)
(* __init__/__eq__ of those classes, and the memoization wrapper memo().   *)
(*                                                                         *)
(* Python objects are heap cells with an identity (their index in heap);   *)
(* CPython reclaims a cell as soon as nothing refers to it, and a          *)
(* WeakValueDictionary drops the entries of reclaimed cells.               *)
(***************************************************************************)
EXTENDS Integers, Sequences, FiniteSets, TLC

VARIABLES
    sys_modules,  \* sys.modules restricted to the grammar module names: name -> module id (0: absent)
    mods,         \* every module object created so far; a module's identity is its index
    memo_cls,     \* the classes whose __new__ memo() has replaced
    memo_cache,   \* the entries of the classes' _memo_cache: [cls, key, obj]
    heap,         \* the instances created so far; an instance's identity is its index
    refs,         \* the instances the program holds a reference to
    ret,          \* the outcome of the last call the program made
    thr           \* the threads inside a memoized constructor call

vars == <<sys_modules, mods, memo_cls, memo_cache, heap, refs, ret, thr>>

----------------------------------------------------------------------------
(* Bounds of the model.                                                     *)

MaxMods == 2    \* module objects created in one run
MaxObj == 2     \* instances allocated in one run

----------------------------------------------------------------------------
(* Python values.  k is the concrete runtime type; n the number a numeric   *)
(* value denotes (True is 1, 1.0 is 1), the string's index, or the identity *)
(* of an instance; xs the elements of a list.                               *)

Elem(k, n) == [k |-> k, n |-> n]
Scalar(k, n) == [k |-> k, n |-> n, xs |-> <<>>]
PyList(xs) == [k |-> "list", n |-> 0, xs |-> xs]
PyNone == Scalar("none", 0)
Unset == Scalar("unset", 0)
AsValue(e) == Scalar(e.k, e.n)

NumericKinds == {"int", "bool", "float"}

NoClass == [mod |-> 0, name |-> "", sup |-> ""]
Cls(m, name, sup) == [mod |-> m, name |-> name, sup |-> sup]
DeadObj == [cls |-> NoClass, vals |-> <<>>]

----------------------------------------------------------------------------
(* Grammars: what the caller writes in asdl_str.                            *)

Field(t, n) == [type |-> t, name |-> n, seq |-> FALSE, opt |-> FALSE]
SeqField(t, n) == [type |-> t, name |-> n, seq |-> TRUE, opt |-> FALSE]
OptField(t, n) == [type |-> t, name |-> n, seq |-> FALSE, opt |-> TRUE]
Constructor(n, fs) == [name |-> n, fields |-> fs]
Product(n, fs) ==
    [name |-> n, kind |-> "Product", fields |-> fs, types |-> <<>>, attributes |-> <<>>]
Sum(n, cs, attrs) ==
    [name |-> n, kind |-> "Sum", fields |-> <<>>, types |-> cs, attributes |-> attrs]

XY == <<Field("int", "x"), Field("int", "y")>>

\* The grammar texts the model passes to ADT, by a short name.
Grammar(id) ==
    CASE id = "memo" ->
           \* module memo { memo_prod = (int x, int y)
           \*               sum = C(int x, int y) | S(int* xs) }
           [name |-> "memo",
            dfns |-> <<Product("memo_prod", XY),
                       Sum("sum", <<Constructor("C", XY),
                                    Constructor("S", <<SeqField("int", "xs")>>)>>, <<>>)>>]
      [] id = "cache_a" ->
           \* module cache_test { foo = (int bar) }
           [name |-> "cache_test",
            dfns |-> <<Product("foo", <<Field("int", "bar")>>)>>]
      [] id = "cache_b" ->
           \* module cache_test { foo = (int bar, int baz) }
           [name |-> "cache_test",
            dfns |-> <<Product("foo", <<Field("int", "bar"), Field("int", "baz")>>)>>]
      [] id = "dup_same" ->
           \* module dup_same { s = A() | B() | A(int x) }
           [name |-> "dup_same",
            dfns |-> <<Sum("s", <<Constructor("A", <<>>), Constructor("B", <<>>),
                                  Constructor("A", <<Field("int", "x")>>)>>, <<>>)>>]
      [] id = "dup_cross" ->
           \* module dup_cross { s = A() | B()   t = D() | A() }
           [name |-> "dup_cross",
            dfns |-> <<Sum("s", <<Constructor("A", <<>>), Constructor("B", <<>>)>>, <<>>),
                       Sum("t", <<Constructor("D", <<>>), Constructor("A", <<>>)>>, <<>>)>>]
      [] id = "ctor_then_type" ->
           \* module ctor_type { s = A() | B()   A = (int x) }
           [name |-> "ctor_type",
            dfns |-> <<Sum("s", <<Constructor("A", <<>>), Constructor("B", <<>>)>>, <<>>),
                       Product("A", <<Field("int", "x")>>)>>]
      [] id = "type_then_ctor" ->
           \* module type_ctor { A = (int x)   s = A() | B() }
           [name |-> "type_ctor",
            dfns |-> <<Product("A", <<Field("int", "x")>>),
                       Sum("s", <<Constructor("A", <<>>), Constructor("B", <<>>)>>, <<>>)>>]
      [] id = "unres_prod" ->
           \* module unres_prod { p = (int x, foo y) }
           [name |-> "unres_prod",
            dfns |-> <<Product("p", <<Field("int", "x"), Field("foo", "y")>>)>>]
      [] id = "unres_ctor" ->
           \* module unres_ctor { s = A(foo x) | B() }
           [name |-> "unres_ctor",
            dfns |-> <<Sum("s", <<Constructor("A", <<Field("foo", "x")>>),
                                  Constructor("B", <<>>)>>, <<>>)>>]
      [] id = "unres_attr" ->
           \* module unres_attr { s = A() | B() attributes (foo* tags) }
           [name |-> "unres_attr",
            dfns |-> <<Sum("s", <<Constructor("A", <<>>), Constructor("B", <<>>)>>,
                           <<SeqField("foo", "tags")>>)>>]
      [] id = "builtin_type" ->
           \* module builtin_type { p = (int x)   int = (string s) }
           [name |-> "builtin_type",
            dfns |-> <<Product("p", <<Field("int", "x")>>),
                       Product("int", <<Field("string", "s")>>)>>]
      [] id = "sym" ->
           \* module sym { expr = Var(sym name) | Const(int val)   sym = (string s) }
           [name |-> "sym",
            dfns |-> <<Sum("expr", <<Constructor("Var", <<Field("sym", "name")>>),
                                     Constructor("Const", <<Field("int", "val")>>)>>, <<>>),
                       Product("sym", <<Field("string", "s")>>)>>]
      [] id = "node" ->
           \* module node { expr = Add(expr lhs, expr rhs) | Const(int val) | Tag(label l)
           \*               label = (string name, int* ids, object? note) }
           [name |-> "node",
            dfns |-> <<Sum("expr", <<Constructor("Add", <<Field("expr", "lhs"), Field("expr", "rhs")>>),
                                     Constructor("Const", <<Field("int", "val")>>),
                                     Constructor("Tag", <<Field("label", "l")>>)>>, <<>>),
                       Product("label", <<Field("string", "name"), SeqField("int", "ids"),
                                          OptField("object", "note")>>)>>]
      [] id = "kinds" ->
           \* module kinds { s = (string v)  i = (int v)  f = (float v)
           \*                b = (bool v)  o = (object v) }
           [name |-> "kinds",
            dfns |-> <<Product("s", <<Field("string", "v")>>), Product("i", <<Field("int", "v")>>),
                       Product("f", <<Field("float", "v")>>), Product("b", <<Field("bool", "v")>>),
                       Product("o", <<Field("object", "v")>>)>>]
      [] OTHER ->
           \* module ok { expr = Var(sym name) | Const(int val) }
           [name |-> "ok",
            dfns |-> <<Sum("expr", <<Constructor("Var", <<Field("sym", "name")>>),
                                     Constructor("Const", <<Field("int", "val")>>)>>, <<>>)>>]

RunGrammars == {"memo"}
BuildGrammars ==
    {"cache_a", "cache_b", "dup_same", "dup_cross", "ctor_then_type", "type_then_ctor",
     "unres_prod", "unres_ctor", "unres_attr", "builtin_type", "sym", "ok"}
ObjGrammars == {"node", "kinds"}
ModNames == {Grammar(id).name : id \in RunGrammars \cup BuildGrammars \cup ObjGrammars}

\* The ext_checks dictionaries the model passes to ADT, as their key sets.
ExtChecks == {{}, {"sym"}, {"int"}}

----------------------------------------------------------------------------
(* _asdl_parse: the ASDL parser.  Its tokenizer makes an identifier that    *)
(* starts with an upper-case letter a ConstructorId and any other a TypeId; *)
(* a definition's name and a field's type must be TypeIds and a             *)
(* constructor's name a ConstructorId.                                      *)

ConstructorIds == {"A", "B", "C", "D", "S", "Var", "Const", "Add", "Tag"}

FieldsParse(fs) == \A i \in DOMAIN fs : fs[i].type \notin ConstructorIds

asdl_parse(g) ==
    LET ok == \A i \in DOMAIN g.dfns :
                LET d == g.dfns[i] IN
                /\ d.name \notin ConstructorIds
                /\ FieldsParse(d.fields)
                /\ FieldsParse(d.attributes)
                /\ \A j \in DOMAIN d.types :
                     /\ d.types[j].name \in ConstructorIds
                     /\ FieldsParse(d.types[j].fields)
    IN [ok |-> ok, name |-> g.name, types |-> g.dfns]

----------------------------------------------------------------------------
(* _build_classes.                                                          *)

\* _builtin_checks: the names of the built-in validators.
builtin_checks == {"string", "int", "object", "float", "bool"}

\* _build_superclasses: one class per type definition.
build_superclasses(types) == {types[i].name : i \in DOMAIN types}

\* _build_checks: the check of each type name, as the namespace that
\* supplied it; ok is FALSE when the assert on a type definition's name fails.
build_checks(superclasses, ext_checks) ==
    LET checks == [n \in builtin_checks \cup ext_checks |->
                     IF n \in ext_checks THEN "ext" ELSE "builtin"]
    IN [ok |-> \A n \in superclasses : n \notin DOMAIN checks,
        chk |-> [n \in DOMAIN checks \cup superclasses |->
                   IF n \in superclasses THEN "class" ELSE checks[n]]]

\* A module's attributes: a set of [name, cls]; setattr replaces.
HasAttr(attrs, n) == \E a \in attrs : a.name = n
GetAttr(attrs, n) == (CHOOSE a \in attrs : a.name = n).cls
SetAttrOf(attrs, n, c) == {a \in attrs : a.name # n} \cup {[name |-> n, cls |-> c]}

\* create_sum as it would be if the assert looked for the name among the
\* constructors of its own Sum only
RECURSIVE create_sum_own(_, _, _, _)
create_sum_own(m, sum_node, j, attrs) ==
    IF j > Len(sum_node.types) THEN [ok |-> TRUE, attrs |-> attrs]
    ELSE LET sum_case == sum_node.types[j] IN
         IF \E a \in attrs : a.name = sum_case.name /\ a.cls.sup = sum_node.name
         THEN [ok |-> FALSE, attrs |-> attrs]
         ELSE create_sum_own(m, sum_node, j + 1,
                             SetAttrOf(attrs, sum_case.name, Cls(m, sum_case.name, sum_node.name)))

\* create_sum: the constructors of one Sum, in order; stops at the first
\* constructor whose name the module already has.
RECURSIVE create_sum(_, _, _, _)
create_sum(m, sum_node, j, attrs) ==
    IF j > Len(sum_node.types) THEN [ok |-> TRUE, attrs |-> attrs]
    ELSE LET sum_case == sum_node.types[j] IN
         IF HasAttr(attrs, sum_case.name) THEN [ok |-> FALSE, attrs |-> attrs]
         ELSE create_sum(m, sum_node, j + 1,
                         SetAttrOf(attrs, sum_case.name, Cls(m, sum_case.name, sum_node.name)))

\* The loop over asdl_mod.types that fills the module.
RECURSIVE define_types(_, _, _, _)
define_types(m, types, i, attrs) ==
    IF i > Len(types) THEN [ok |-> TRUE, attrs |-> attrs]
    ELSE IF types[i].kind = "Product"
         THEN define_types(m, types, i + 1, SetAttrOf(attrs, types[i].name, Cls(m, types[i].name, "")))
         ELSE LET r == create_sum(m, types[i], 1, attrs) IN
              IF ~r.ok THEN r
              ELSE define_types(m, types, i + 1,
                                SetAttrOf(r.attrs, types[i].name, Cls(m, types[i].name, "")))

\* _build_classes for the module object m: whether sys.modules got m
\* (published), whether the build ran to its end (ok), and the module.
build_classes(m, asdl_mod, ext_checks) ==
    LET checks == build_checks(build_superclasses(asdl_mod.types), ext_checks)
        r == define_types(m, asdl_mod.types, 1, {})
    IN IF ~checks.ok
       THEN [published |-> FALSE, ok |-> FALSE,
             mod |-> [name |-> asdl_mod.name, ast |-> <<>>, chk |-> checks.chk,
                      attrs |-> {}, complete |-> FALSE]]
       ELSE [published |-> TRUE, ok |-> r.ok,
             mod |-> [name |-> asdl_mod.name, ast |-> asdl_mod.types, chk |-> checks.chk,
                      attrs |-> r.attrs, complete |-> r.ok]]

\* The outcome of a call: op the call (ADT, memo, new, setattr, del, eq, hash,
\* update), g and ext
\* ADT's arguments, cls and args a constructor call's, val the module or
\* instance returned (0: none), err the exception raised ("": none) and at
\* the index of the field whose check raised it; for a == b (eq), val and at
\* are the operands and res the result.
NoRet ==
    [op |-> "", g |-> "", ext |-> {}, cls |-> NoClass, args |-> <<>>,
     val |-> 0, err |-> "", at |-> 0, res |-> FALSE]

\* ADT(asdl_str, ext_checks)
ADT(id, ext_checks) ==
    /\ Len(mods) < MaxMods
    /\ LET asdl_ast == asdl_parse(Grammar(id))
           m == Len(mods) + 1
           b == build_classes(m, asdl_ast, ext_checks)
           call == [NoRet EXCEPT !.op = "ADT", !.g = id, !.ext = ext_checks]
       IN IF ~asdl_ast.ok
          THEN /\ ret' = [call EXCEPT !.err = "ASDLSyntaxError"]
               /\ UNCHANGED <<sys_modules, mods>>
          ELSE IF ~b.published
          THEN /\ ret' = [call EXCEPT !.err = "AssertionError"]
               /\ UNCHANGED <<sys_modules, mods>>
          ELSE /\ mods' = Append(mods, b.mod)
               /\ sys_modules' = [sys_modules EXCEPT ![asdl_ast.name] = m]
               /\ ret' = IF b.ok THEN [call EXCEPT !.val = m]
                         ELSE [call EXCEPT !.err = "AssertionError"]
    /\ UNCHANGED <<memo_cls, memo_cache, heap, refs, thr>>

----------------------------------------------------------------------------
(* The classes of a module.                                                 *)

TypeDef(types, n) == types[CHOOSE i \in DOMAIN types : types[i].name = n]
FirstCase(sum_node, n) ==
    LET js == {j \in DOMAIN sum_node.types : sum_node.types[j].name = n}
    IN sum_node.types[CHOOSE j \in js : \A j2 \in js : j <= j2]

\* The fields create_prod and create_sum hand to create_initfn for class c:
\* a Product's fields, a constructor's fields followed by its Sum's attributes.
ClassFields(ms, c) ==
    LET types == ms[c.mod].ast IN
    IF c.sup = "" THEN TypeDef(types, c.name).fields
    ELSE FirstCase(TypeDef(types, c.sup), c.name).fields \o TypeDef(types, c.sup).attributes

\* A Sum's own class, whose __init__ is invalid_init.
IsSumBase(ms, c) == c.sup = "" /\ TypeDef(ms[c.mod].ast, c.name).kind = "Sum"

Classes(ms) == UNION {{a.cls : a \in ms[m].attrs} : m \in DOMAIN ms}

----------------------------------------------------------------------------
(* The checks of a generated __init__.                                      *)

\* the check as it would be if it were "type(x) is superclasses[typ]"
make_check_exact(h, m, typ, x) ==
    /\ x.k = "obj"
    /\ h[x.n].cls = Cls(m, typ, "")

\* isinstance(x, superclasses[typ]) for the classes of module m
make_check(h, m, typ, x) ==
    /\ x.k = "obj"
    /\ h[x.n].cls.mod = m
    /\ \/ h[x.n].cls = Cls(m, typ, "")
       \/ h[x.n].cls.sup = typ

\* _builtin_checks[typ](x)
builtin_check(typ, x) ==
    CASE typ = "string" -> x.k = "str"
      [] typ = "int" -> x.k \in {"int", "bool"}     \* bool is a subclass of int
      [] typ = "object" -> x.k # "none"
      [] typ = "float" -> x.k = "float"
      [] OTHER -> x.k = "bool"

\* The caller's check functions: sym accepts strings, any other accepts all.
ext_check(typ, x) == IF typ = "sym" THEN x.k = "str" ELSE TRUE

\* CHK[typ](x) of module m: "KeyError" when CHK has no typ, else "" or "TypeError"
CHK(ms, h, m, typ, x) ==
    LET chk == ms[m].chk IN
    IF typ \notin DOMAIN chk THEN "KeyError"
    ELSE LET ok == CASE chk[typ] = "builtin" -> builtin_check(typ, x)
                     [] chk[typ] = "ext" -> ext_check(typ, x)
                     [] OTHER -> make_check(h, m, typ, x)
         IN IF ok THEN "" ELSE "TypeError"

\* basic_check
basic_check(ms, h, m, typ, x) == CHK(ms, h, m, typ, x)

\* opt_check
opt_check(ms, h, m, typ, x) == IF x.k # "none" THEN basic_check(ms, h, m, typ, x) ELSE ""

\* seq_check: the list test, then the elements in order up to the first failure
RECURSIVE seq_elems(_, _, _, _, _, _)
seq_elems(ms, h, m, typ, xs, j) ==
    IF j > Len(xs) THEN ""
    ELSE LET e == basic_check(ms, h, m, typ, AsValue(xs[j])) IN
         IF e # "" THEN e ELSE seq_elems(ms, h, m, typ, xs, j + 1)

seq_check(ms, h, m, typ, x) ==
    IF x.k # "list" THEN "TypeError" ELSE seq_elems(ms, h, m, typ, x.xs, 1)

\* The checks of <cls>_init_inner, field by field: the first error and its field.
RECURSIVE init_checks(_, _, _, _, _, _)
init_checks(ms, h, m, fields, args, i) ==
    IF i > Len(fields) THEN [err |-> "", at |-> 0]
    ELSE LET f == fields[i]
             e == IF f.seq THEN seq_check(ms, h, m, f.type, args[i])
                  ELSE IF f.opt THEN opt_check(ms, h, m, f.type, args[i])
                  ELSE basic_check(ms, h, m, f.type, args[i])
         IN IF e # "" THEN [err |-> e, at |-> i]
            ELSE init_checks(ms, h, m, fields, args, i + 1)

----------------------------------------------------------------------------
(* Equality of Python values and the generated __eq__.                      *)

RECURSIVE py_eq(_, _, _)
RECURSIVE eq_fields(_, _, _, _)

\* the chain "(self.f1 == o.f1) and (self.f2 == o.f2) and ..." from field i on
eq_fields(h, a, b, i) ==
    IF i > Len(h[a].vals) THEN TRUE
    ELSE IF ~py_eq(h, h[a].vals[i], h[b].vals[i]) THEN FALSE
    ELSE eq_fields(h, a, b, i + 1)

\* <cls>_eq as it would be without "type(self) is type(o)"
eqfn_fields_only(h, a, b) ==
    Len(h[a].vals) = Len(h[b].vals) /\ eq_fields(h, a, b, 1)

\* <cls>_eq(self, o) for two instances
eqfn(h, a, b) ==
    IF h[a].cls # h[b].cls THEN FALSE ELSE eq_fields(h, a, b, 1)

\* x == y: numbers by value whatever their type, lists and tuples element by
\* element, instances by their __eq__
py_eq(h, x, y) ==
    IF x.k = "obj" /\ y.k = "obj" THEN eqfn(h, x.n, y.n)
    ELSE IF x.k \in NumericKinds /\ y.k \in NumericKinds THEN x.n = y.n
    ELSE /\ x.k = y.k
         /\ x.n = y.n
         /\ Len(x.xs) = Len(y.xs)
         /\ \A j \in DOMAIN x.xs : py_eq(h, AsValue(x.xs[j]), AsValue(y.xs[j]))

----------------------------------------------------------------------------
(* The generated __hash__: hash((type(self), self.f1, ...)).                *)

\* the width the model keeps of a hash value
HashMod == 4096

\* hash(type(self)): a number of the class object, one per class
ClassNum(ms, c) ==
    LET types == ms[c.mod].ast
        own == IF c.sup = "" THEN c.name ELSE c.sup
        i == CHOOSE i \in DOMAIN types : types[i].name = own
        js == {j \in DOMAIN types[i].types : types[i].types[j].name = c.name}
        j == IF c.sup = "" THEN 0 ELSE CHOOSE j \in js : \A j2 \in js : j <= j2
    IN c.mod * 64 + i * 8 + j

RECURSIVE hashfn(_, _, _)
RECURSIVE hash_tuple(_, _, _, _, _)

\* hash(x) of a field value: equal numbers hash equal whatever their type, a
\* list is unhashable, an instance hashes by its __hash__
hash_value(ms, h, x) ==
    CASE x.k = "list" -> [err |-> "TypeError", n |-> 0]
      [] x.k = "unset" -> [err |-> "AttributeError", n |-> 0]
      [] x.k = "obj" -> hashfn(ms, h, x.n)
      [] x.k \in NumericKinds -> [err |-> "", n |-> x.n]
      [] x.k = "none" -> [err |-> "", n |-> 7]
      [] OTHER -> [err |-> "", n |-> 100 + x.n]

\* the hash of the tuple, element by element from element i on
hash_tuple(ms, h, vals, i, acc) ==
    IF i > Len(vals) THEN [err |-> "", n |-> acc]
    ELSE LET e == hash_value(ms, h, vals[i]) IN
         IF e.err # "" THEN e
         ELSE hash_tuple(ms, h, vals, i + 1, (acc * 31 + e.n) % HashMod)

\* <cls>_hash(self)
hashfn(ms, h, o) == hash_tuple(ms, h, h[o].vals, 1, ClassNum(ms, h[o].cls))

----------------------------------------------------------------------------
(* Reclamation: CPython frees an instance when the last reference to it     *)
(* goes, and a WeakValueDictionary then drops the instance's entries.       *)

ObjsIn(v) ==
    (IF v.k = "obj" THEN {v.n} ELSE {}) \cup {v.xs[j].n : j \in {j \in DOMAIN v.xs : v.xs[j].k = "obj"}}

RECURSIVE Reach(_, _)
Reach(h, r) ==
    LET more == r \cup UNION {UNION {ObjsIn(h[o].vals[i]) : i \in DOMAIN h[o].vals} : o \in r}
    IN IF more = r THEN r ELSE Reach(h, more)

Reclaim(h, roots) == [o \in DOMAIN h |-> IF o \in Reach(h, roots) THEN h[o] ELSE DeadObj]

\* the cache as it would be if it held its instances' entries for good
SweepNever(h, roots, cache) == cache

Sweep(h, roots, cache) == {e \in cache : e.obj \in Reach(h, roots)}

Threads == {1, 2}
Idle == [pc |-> "idle", cls |-> NoClass, args |-> <<>>, key |-> <<>>, val |-> 0]
Held(t) == {t[i].val : i \in DOMAIN t} \ {0}

----------------------------------------------------------------------------
(* memo: _add_memoization and the <name>_new it generates.                  *)

\* _builtin_keymap
builtin_keymap == {"string", "int", "object", "float", "bool"}

\* the names _add_memoization hands to create_newfn: Products and constructors
MemoNames(types) ==
    UNION {IF types[i].kind = "Product" THEN {types[i].name}
           ELSE {types[i].types[j].name : j \in DOMAIN types[i].types} : i \in DOMAIN types}

\* the classes create_newfn gives a fresh _memo_cache and a new __new__
add_memoization(ms, m, whitelist) ==
    {GetAttr(ms[m].attrs, n) : n \in MemoNames(ms[m].ast) \cap whitelist}

\* K[typ](x) with no ext_key: the value itself for a built-in type, id(x) for
\* a type of the module
keymap(ms, m, typ, x) ==
    IF typ \in build_superclasses(ms[m].ast)
    THEN [err |-> "", k |-> Elem("id", IF x.k = "obj" THEN x.n ELSE 0)]
    ELSE IF typ \in builtin_keymap THEN [err |-> "", k |-> Elem(x.k, x.n)]
    ELSE [err |-> "KeyError", k |-> Elem("", 0)]

\* create_listkey: tuple(K[typ](i) for i in x)
RECURSIVE listkey(_, _, _, _, _)
listkey(ms, m, typ, xs, j) ==
    IF j > Len(xs) THEN [err |-> "", xs |-> <<>>]
    ELSE LET k == keymap(ms, m, typ, AsValue(xs[j]))
             rest == listkey(ms, m, typ, xs, j + 1)
         IN IF k.err # "" THEN [err |-> k.err, xs |-> <<>>]
            ELSE IF rest.err # "" THEN rest
            ELSE [err |-> "", xs |-> <<k.k>> \o rest.xs]

\* one element of the key tuple
field_key(ms, m, f, x) ==
    IF f.seq
    THEN IF x.k = "str" THEN [err |-> "", k |-> [k |-> "tuple", n |-> x.n, xs |-> <<>>]]
         ELSE IF x.k # "list" THEN [err |-> "TypeError", k |-> Unset]   \* not iterable
         ELSE LET l == listkey(ms, m, f.type, x.xs, 1) IN
              [err |-> l.err, k |-> [k |-> "tuple", n |-> 0, xs |-> l.xs]]
    ELSE IF f.opt /\ x.k = "none" THEN [err |-> "", k |-> PyNone]
    ELSE LET k == keymap(ms, m, f.type, x) IN
         [err |-> k.err, k |-> IF k.k.k = "list" THEN x ELSE AsValue(k.k)]

\* key = (...): the elements in field order, up to the first error
RECURSIVE create_key(_, _, _, _, _)
create_key(ms, m, fields, args, i) ==
    IF i > Len(fields) THEN [err |-> "", at |-> 0, key |-> <<>>]
    ELSE LET k == field_key(ms, m, fields[i], args[i])
             rest == create_key(ms, m, fields, args, i + 1)
         IN IF k.err # "" THEN [err |-> k.err, at |-> i, key |-> <<>>]
            ELSE IF rest.err # "" THEN rest
            ELSE [err |-> "", at |-> 0, key |-> <<k.k>> \o rest.key]

\* a list in the key makes the tuple unhashable: the dictionary raises
Unhashable(key) == \E i \in DOMAIN key : key[i].k = "list"

\* key equality as it would be if only the first element counted
KeyEqFirst(h, k1, k2) ==
    /\ Len(k1) = Len(k2)
    /\ Len(k1) > 0 => py_eq(h, k1[1], k2[1])

\* two keys are the same dictionary key
KeyEq(h, k1, k2) ==
    /\ Len(k1) = Len(k2)
    /\ \A i \in DOMAIN k1 : py_eq(h, k1[i], k2[i])

\* T._memo_cache.get(key): the instance, or 0
cache_get(h, cache, c, key) ==
    LET hits == {e \in cache : e.cls = c /\ KeyEq(h, e.key, key)}
    IN IF hits = {} THEN 0 ELSE (CHOOSE e \in hits : TRUE).obj

\* T._memo_cache[key] = val
cache_put(h, cache, c, key, val) ==
    {e \in cache : ~(e.cls = c /\ KeyEq(h, e.key, key))} \cup {[cls |-> c, key |-> key, obj |-> val]}

----------------------------------------------------------------------------
(* The program's calls, each run to its end without interruption.           *)

\* The values the model passes to constructors and assigns to fields.
I1 == Scalar("int", 1)
I2 == Scalar("int", 2)
True == Scalar("bool", 1)
StrA == Scalar("str", 1)
F1 == Scalar("float", 1)
Lists ==
    {PyList(<<>>), PyList(<<Elem("int", 1)>>), PyList(<<Elem("str", 1)>>),
     PyList(<<Elem("int", 1), Elem("int", 2)>>), PyList(<<Elem("int", 2), Elem("int", 1)>>)}

\* the argument tuples for a field list: the first argument from first, the
\* later ones from rest, the argument of a sequence field from seqs
ArgsOf(fields, first, rest, seqs) ==
    {a \in [1..Len(fields) -> first \cup rest \cup seqs] :
        \A i \in 1..Len(fields) :
            a[i] \in (IF fields[i].seq THEN seqs ELSE IF i = 1 THEN first ELSE rest)}

\* memo(mod, whitelist)
memo(m, whitelist) ==
    /\ m \in DOMAIN mods
    /\ mods[m].complete
    /\ LET cs == add_memoization(mods, m, whitelist) IN
       /\ memo_cls' = memo_cls \cup cs
       /\ memo_cache' = {e \in memo_cache : e.cls \notin cs}
    /\ ret' = [NoRet EXCEPT !.op = "memo", !.val = m]
    /\ UNCHANGED <<sys_modules, mods, heap, refs, thr>>

Raise(call, err, at) ==
    /\ ret' = [call EXCEPT !.err = err, !.at = at]
    /\ UNCHANGED <<sys_modules, mods, memo_cls, memo_cache, heap, refs, thr>>

\* cls(*args): type.__call__ runs cls.__new__ and then __init__ on its result;
\* a call whose arguments do not fit the signature of <name>_new or <cls>_init
\* (invalid_init takes none) raises TypeError
New(c, args) ==
    LET fields == ClassFields(mods, c)
        call == [NoRet EXCEPT !.op = "new", !.cls = c, !.args = args]
        k == IF c \in memo_cls THEN create_key(mods, c.mod, fields, args, 1)
             ELSE [err |-> "", at |-> 0, key |-> <<>>]
        hit == IF c \in memo_cls /\ k.err = "" /\ ~Unhashable(k.key)
               THEN cache_get(heap, memo_cache, c, k.key) ELSE 0
        chk == init_checks(mods, heap, c.mod, fields, args, 1)
    IN IF Len(args) # Len(fields) THEN Raise(call, "TypeError", 0)          \* the call's arity
       ELSE IF IsSumBase(mods, c) THEN Raise(call, "AssertionError", 0)     \* invalid_init
       ELSE IF k.err # "" THEN Raise(call, k.err, k.at)                     \* raised in <name>_new
       ELSE IF Unhashable(k.key) THEN Raise(call, "TypeError", 0)
       ELSE IF chk.err # "" THEN Raise(call, chk.err, chk.at)               \* raised in <name>_init
       ELSE IF hit # 0
       THEN /\ heap' = [heap EXCEPT ![hit].vals = args]
            /\ refs' = refs \cup {hit}
            /\ ret' = [call EXCEPT !.val = hit]
            /\ UNCHANGED <<sys_modules, mods, memo_cls, memo_cache, thr>>
       ELSE /\ Len(heap) < MaxObj
            /\ heap' = Append(heap, [cls |-> c, vals |-> args])
            /\ memo_cache' = IF c \in memo_cls
                             THEN cache_put(heap, memo_cache, c, k.key, Len(heap) + 1)
                             ELSE memo_cache
            /\ refs' = refs \cup {Len(heap) + 1}
            /\ ret' = [call EXCEPT !.val = Len(heap) + 1]
            /\ UNCHANGED <<sys_modules, mods, memo_cls, thr>>

Construct(first, rest, seqs) ==
    \E c \in Classes(mods) :
        \E args \in ArgsOf(ClassFields(mods, c), first, rest, seqs) : New(c, args)

\* obj.<field i> = v
SetAttr(o, i, v) ==
    /\ o \in refs
    /\ heap' = [heap EXCEPT ![o].vals[i] = v]
    /\ ret' = [NoRet EXCEPT !.op = "setattr", !.val = o, !.at = i]
    /\ UNCHANGED <<sys_modules, mods, memo_cls, memo_cache, refs, thr>>

\* the program drops its reference to o
Release(o) ==
    /\ o \in refs
    /\ refs' = refs \ {o}
    /\ heap' = Reclaim(heap, (refs \ {o}) \cup Held(thr))
    /\ memo_cache' = Sweep(heap, (refs \ {o}) \cup Held(thr), memo_cache)
    /\ ret' = [NoRet EXCEPT !.op = "del", !.val = o]
    /\ UNCHANGED <<sys_modules, mods, memo_cls, thr>>

\* a == b for two instances the program holds
Compare(a, b) ==
    /\ a \in refs
    /\ b \in refs
    /\ ret' = [NoRet EXCEPT !.op = "eq", !.val = a, !.at = b, !.res = eqfn(heap, a, b)]
    /\ UNCHANGED <<sys_modules, mods, memo_cls, memo_cache, heap, refs, thr>>

\* hash(o) for an instance the program holds; at is the hash
Hash(o) ==
    /\ o \in refs
    /\ LET r == hashfn(mods, heap, o) IN
       ret' = [NoRet EXCEPT !.op = "hash", !.val = o, !.err = r.err, !.at = r.n]
    /\ UNCHANGED <<sys_modules, mods, memo_cls, memo_cache, heap, refs, thr>>

\* The attributes create_prod and create_sum_constructor give a class.
ClassAttrs == {"__init__", "__repr__", "__eq__", "__hash__", "__slots__", "__match_args__"}

\* o.update(<field i> = v), o.update() for i = 0: the attribute lookup finds
\* update neither on the instance nor on its class; cls and args are o's class
\* and the field values asked for, val the instance returned (0: none)
Update(o, i, v) ==
    /\ o \in refs
    /\ LET fields == ClassFields(mods, heap[o].cls)
           call == [NoRet EXCEPT !.op = "update", !.cls = heap[o].cls, !.at = i,
                                 !.args = [k \in DOMAIN heap[o].vals |->
                                             IF k = i THEN v ELSE heap[o].vals[k]]]
       IN IF \E k \in DOMAIN fields : fields[k].name = "update"
          THEN Raise(call, "TypeError", 0)               \* the field's value is not callable
          ELSE "update" \notin ClassAttrs /\ Raise(call, "AttributeError", 0)

----------------------------------------------------------------------------
(* A memoized constructor call, statement by statement, in a thread.  The   *)
(* interpreter may switch threads between any two of them.                  *)

SetThr(t, r) == thr' = [thr EXCEPT ![t] = r]

\* the call, up to "key = (...)"
T_Call(t, c, args) ==
    /\ thr[t].pc = "idle"
    /\ c \in memo_cls
    /\ LET k == create_key(mods, c.mod, ClassFields(mods, c), args, 1) IN
       /\ k.err = ""
       /\ ~Unhashable(k.key)
       /\ SetThr(t, [pc |-> "get", cls |-> c, args |-> args, key |-> k.key, val |-> 0])
    /\ UNCHANGED <<sys_modules, mods, memo_cls, memo_cache, heap, refs, ret>>

\* val = T._memo_cache.get(key); if val == None
T_Get(t) ==
    /\ thr[t].pc = "get"
    /\ LET val == cache_get(heap, memo_cache, thr[t].cls, thr[t].key) IN
       SetThr(t, [thr[t] EXCEPT !.val = val, !.pc = IF val = 0 THEN "new" ELSE "init"])
    /\ UNCHANGED <<sys_modules, mods, memo_cls, memo_cache, heap, refs, ret>>

\* val = super(T, cls).__new__(cls)
T_New(t) ==
    /\ thr[t].pc = "new"
    /\ Len(heap) < MaxObj
    /\ heap' = Append(heap, [cls |-> thr[t].cls, vals |-> [i \in DOMAIN thr[t].args |-> Unset]])
    /\ SetThr(t, [thr[t] EXCEPT !.val = Len(heap) + 1, !.pc = "put"])
    /\ UNCHANGED <<sys_modules, mods, memo_cls, memo_cache, refs, ret>>

\* T._memo_cache[key] = val; return val
T_Put(t) ==
    /\ thr[t].pc = "put"
    /\ memo_cache' = cache_put(heap, memo_cache, thr[t].cls, thr[t].key, thr[t].val)
    /\ SetThr(t, [thr[t] EXCEPT !.pc = "init"])
    /\ UNCHANGED <<sys_modules, mods, memo_cls, heap, refs, ret>>

\* <name>_init(val, *args): the checks, then the assignments; the thread keeps
\* the instance returned, and an exception drops the thread's reference
T_Init(t) ==
    /\ thr[t].pc = "init"
    /\ LET c == thr[t].cls
           chk == init_checks(mods, heap, c.mod, ClassFields(mods, c), thr[t].args, 1)
           left == [thr EXCEPT ![t] = Idle]
       IN IF chk.err # ""
          THEN /\ thr' = left
               /\ heap' = Reclaim(heap, refs \cup Held(left))
               /\ memo_cache' = Sweep(heap, refs \cup Held(left), memo_cache)
          ELSE /\ heap' = [heap EXCEPT ![thr[t].val].vals = thr[t].args]
               /\ SetThr(t, [thr[t] EXCEPT !.pc = "done"])
               /\ UNCHANGED memo_cache
    /\ UNCHANGED <<sys_modules, mods, memo_cls, refs, ret>>

\* the thread drops the instance it got
T_Drop(t) ==
    /\ thr[t].pc = "done"
    /\ LET left == [thr EXCEPT ![t] = Idle] IN
       /\ thr' = left
       /\ heap' = Reclaim(heap, refs \cup Held(left))
       /\ memo_cache' = Sweep(heap, refs \cup Held(left), memo_cache)
    /\ UNCHANGED <<sys_modules, mods, memo_cls, refs, ret>>

----------------------------------------------------------------------------
(* Specifications.                                                          *)

Whitelists == {{"memo_prod", "S"}, {"C"}}

Init ==
    /\ sys_modules = [n \in ModNames |-> 0]
    /\ mods = <<>>
    /\ memo_cls = {}
    /\ memo_cache = {}
    /\ heap = <<>>
    /\ refs = {}
    /\ ret = NoRet
    /\ thr = [t \in Threads |-> Idle]

\* The whole program, one thread: build, memo, construct, assign, release.
Next ==
    \/ \E id \in RunGrammars : ADT(id, {})
    \/ \E m \in DOMAIN mods : \E w \in Whitelists : memo(m, w)
    \/ Construct({I1, I2}, {I1}, {PyList(<<>>)})
    \/ \E o \in refs : \E i \in DOMAIN heap[o].vals : SetAttr(o, i, I2)
    \/ \E o \in refs : Release(o)

Spec == Init /\ [][Next]_vars

\* The builder alone, over every grammar and ext_checks of the model.
NextBuild == \E id \in BuildGrammars : \E ext \in ExtChecks : ADT(id, ext)

SpecBuild == Init /\ [][NextBuild]_vars

\* A module built and memoized as the test fixture does it:
\*   m = ADT(<grammar memo>); memo(m, ["memo_prod", "S"])
MemoMods == <<build_classes(1, asdl_parse(Grammar("memo")), {}).mod>>

InitMemo ==
    /\ sys_modules = [n \in ModNames |-> IF n = "memo" THEN 1 ELSE 0]
    /\ mods = MemoMods
    /\ memo_cls = add_memoization(MemoMods, 1, {"memo_prod", "S"})
    /\ memo_cache = {}
    /\ heap = <<>>
    /\ refs = {}
    /\ ret = NoRet
    /\ thr = [t \in Threads |-> Idle]

NextMemo ==
    \/ Construct({I1, I2, True, StrA}, {I1, I2}, Lists \cup {I1})
    \/ \E o \in refs : Release(o)
    \/ \E a \in refs : \E b \in refs : Compare(a, b)

SpecMemo == InitMemo /\ [][NextMemo]_vars

\* Two threads calling the memoized constructors of the same module.
NextThreads ==
    \E t \in Threads :
        \/ \E c \in memo_cls :
               \E args \in ArgsOf(ClassFields(mods, c), {I1, True, StrA}, {I1},
                                  {PyList(<<>>), PyList(<<Elem("int", 1)>>)}) :
                   T_Call(t, c, args)
        \/ T_Get(t)
        \/ T_New(t)
        \/ T_Put(t)
        \/ T_Init(t)
        \/ T_Drop(t)

SpecThreads == InitMemo /\ [][NextThreads]_vars

\* A module with recursive types, one of them memoized: build, memo,
\* construct from scalars and from the instances held, hash, update, release.
Objs == {Scalar("obj", o) : o \in refs}

NextObj ==
    \/ mods = <<>> /\ ADT("node", {})
    \/ \E m \in DOMAIN mods : memo(m, {"label"})
    \/ Construct({I1, StrA} \cup Objs, {PyNone} \cup Objs, {PyList(<<>>), I1})
    \/ \E c \in Classes(mods) : \E args \in {<<>>, <<I1>>} : New(c, args)
    \/ \E o \in refs : Hash(o)
    \/ \E o \in refs : \E i \in 0..Len(heap[o].vals) : Update(o, i, I1)
    \/ \E o \in refs : Release(o)

SpecObj == Init /\ [][NextObj]_vars

\* One Product per built-in type, each called with one value of every kind.
KindsMods == <<build_classes(1, asdl_parse(Grammar("kinds")), {}).mod>>

InitKinds ==
    /\ sys_modules = [n \in ModNames |-> IF n = "kinds" THEN 1 ELSE 0]
    /\ mods = KindsMods
    /\ memo_cls = {}
    /\ memo_cache = {}
    /\ heap = <<>>
    /\ refs = {}
    /\ ret = NoRet
    /\ thr = [t \in Threads |-> Idle]

NextKinds ==
    \/ Construct({StrA, I1, F1, True, PyNone}, {}, {})
    \/ \E o \in refs : Release(o)

SpecKinds == InitKinds /\ [][NextKinds]_vars

\* The memoized module: instances made, dropped and made again.
NextWeak ==
    \/ Construct({I1, I2}, {I1}, {PyList(<<>>), PyList(<<Elem("int", 1)>>)})
    \/ \E o \in refs : Release(o)

SpecWeak == InitMemo /\ [][NextWeak]_vars

----------------------------------------------------------------------------
(* Claims.                                                                  *)

Live == Reach(heap, refs \cup Held(thr))

\* "equal field values": the same number of values, equal pairwise under ==
ArgsEq(h, a, b) ==
    /\ Len(a) = Len(b)
    /\ \A i \in DOMAIN a : py_eq(h, a[i], b[i])

\* C1: a successful construction of a memoized type returns an instance the
\* program already holds exactly when that instance has equal field values
\* (the identical object for equal values, a different object for different
\* values); a successful construction of a type that is not memoized returns
\* an object distinct from every instance the program holds, and equal (==)
\* to those of its type that have equal field values.
C1_MemoIdentity ==
    [][(ret'.op = "new" /\ ret'.err = "") =>
         \A o \in refs :
            heap[o].cls = ret'.cls =>
               IF ret'.cls \in memo_cls
               THEN (ret'.val = o) <=> ArgsEq(heap, heap[o].vals, ret'.args)
               ELSE /\ ret'.val # o
                    /\ ArgsEq(heap, heap[o].vals, ret'.args) => eqfn(heap', ret'.val, o)]_vars

\* C1 witness: the last call, of a memoized type, returned an instance made
\* earlier while a younger instance of the same type, with other field
\* values, is held too.
C1_Witness ==
    /\ ret.op = "new"
    /\ ret.err = ""
    /\ ret.cls \in memo_cls
    /\ \E o \in refs :
          /\ heap[o].cls = ret.cls
          /\ ret.val < o
          /\ ~ArgsEq(heap, heap[o].vals, ret.args)

\* C2: a memoized type never has two distinct live instances with equal
\* field values.
C2_AtMostOneLive ==
    \A a \in Live : \A b \in Live :
        (/\ heap[a].cls \in memo_cls
         /\ heap[a].cls = heap[b].cls
         /\ ArgsEq(heap, heap[a].vals, heap[b].vals)) => a = b

\* C3: two threads that are both back from a call of the same memoized type
\* with equal keys, each still holding its result, hold the same object.
C3_OneCanonical ==
    \A t \in Threads : \A u \in Threads :
        (/\ thr[t].pc = "done"
         /\ thr[u].pc = "done"
         /\ thr[t].cls = thr[u].cls
         /\ KeyEq(heap, thr[t].key, thr[u].key)) => thr[t].val = thr[u].val

\* C4: the module a successful ADT call returns is the only module object
\* ever created under its name, so a later call with that module name returns
\* the first build's object.
C4_SameModule ==
    (ret.op = "ADT" /\ ret.err = "") =>
        \A m \in DOMAIN mods : mods[m].name = mods[ret.val].name => m = ret.val

\* C5: assigning a field of an existing instance raises an error, and no step
\* changes a field value of an instance that exists before and after it.
C5_Immutable ==
    [][/\ ret'.op = "setattr" => ret'.err # ""
       /\ \A o \in DOMAIN heap :
             (heap[o] # DeadObj /\ heap'[o] # DeadObj) => heap'[o].vals = heap[o].vals]_vars

\* C6: after an ADT call that raised, sys.modules holds no module under the
\* grammar's module name.
C6_NothingPublished ==
    (ret.op = "ADT" /\ ret.err # "") => sys_modules[Grammar(ret.g).name] = 0

FieldTypes(g) ==
    UNION {{d.fields[k].type : k \in DOMAIN d.fields}
           \cup {d.attributes[k].type : k \in DOMAIN d.attributes}
           \cup UNION {{d.types[j].fields[k].type : k \in DOMAIN d.types[j].fields} :
                       j \in DOMAIN d.types} :
           d \in {g.dfns[i] : i \in DOMAIN g.dfns}}
TypeDefNames(g) == {g.dfns[i].name : i \in DOMAIN g.dfns}
BuiltinKinds == {"string", "int", "float", "bool", "object"}

\* C7: an ADT call on a grammar with a field type that is no built-in, no
\* key of ext_checks and no type of the module raises and returns no module.
C7_UnresolvedFails ==
    (ret.op = "ADT" /\ FieldTypes(Grammar(ret.g)) \ (BuiltinKinds \cup ret.ext \cup TypeDefNames(Grammar(ret.g))) # {})
        => (ret.err # "" /\ ret.val = 0)

CtorPlaces(g) == {<<i, j>> : i \in DOMAIN g.dfns, j \in 1..3} \cap
                 UNION {{<<i, j>> : j \in DOMAIN g.dfns[i].types} : i \in DOMAIN g.dfns}
CtorCollision(g) ==
    \E p \in CtorPlaces(g) :
        LET n == g.dfns[p[1]].types[p[2]].name IN
        \/ n \in TypeDefNames(g)
        \/ \E q \in CtorPlaces(g) : q # p /\ g.dfns[q[1]].types[q[2]].name = n

\* C8: an ADT call on a grammar in which a constructor's name is also the
\* name of another constructor (of any Sum) or of a type raises and returns
\* no module, whichever of the two is declared first.
C8_CtorCollisionFails ==
    (ret.op = "ADT" /\ CtorCollision(Grammar(ret.g))) => (ret.err # "" /\ ret.val = 0)

\* C8 witness: the build of a grammar whose two Sums share a constructor name
\* has raised.
C8_Witness ==
    /\ ret.op = "ADT"
    /\ ret.g = "dup_cross"
    /\ CtorCollision(Grammar(ret.g))
    /\ ret.err = "AssertionError"

\* C9: an ADT call raises when a name is shared by two of the built-in kinds,
\* the keys of ext_checks and the module's types; and in no module does the
\* check of a built-in name come from ext_checks.
C9_NamespaceClashFails ==
    /\ (/\ ret.op = "ADT"
        /\ \/ BuiltinKinds \cap ret.ext # {}
           \/ BuiltinKinds \cap TypeDefNames(Grammar(ret.g)) # {}
           \/ ret.ext \cap TypeDefNames(Grammar(ret.g)) # {}) => ret.err # ""
    /\ \A m \in DOMAIN mods : \A n \in BuiltinKinds : mods[m].chk[n] = "builtin"

\* two field values compare equal: a sequence element by element, in order
FieldEqual(h, x, y) ==
    IF x.k = "list" \/ y.k = "list"
    THEN /\ x.k = y.k
         /\ Len(x.xs) = Len(y.xs)
         /\ \A j \in 1..Len(x.xs) : py_eq(h, AsValue(x.xs[j]), AsValue(y.xs[j]))
    ELSE py_eq(h, x, y)

\* C10: a == b is true exactly when a and b have the identical class and
\* every field of a compares equal to the same field of b.
C10_StructuralEq ==
    ret.op = "eq" =>
        (ret.res <=>
            /\ heap[ret.val].cls = heap[ret.at].cls
            /\ \A i \in DOMAIN heap[ret.val].vals :
                  FieldEqual(heap, heap[ret.val].vals[i], heap[ret.at].vals[i]))

\* C10 witness: a Product and a constructor with the same field names and
\* equal field values were compared, and compare unequal.
C10_Witness ==
    /\ ret.op = "eq"
    /\ ~ret.res
    /\ heap[ret.val].cls.name = "memo_prod"
    /\ heap[ret.at].cls.name = "C"
    /\ ArgsEq(heap, heap[ret.val].vals, heap[ret.at].vals)

\* C11: hashing an instance the program holds (its fields are valid, they
\* passed the constructor's checks) succeeds, and two instances that compare
\* equal have equal hashes.
C11_HashConsistent ==
    /\ ret.op = "hash" => ret.err = ""
    /\ \A a \in refs : \A b \in refs :
          eqfn(heap, a, b) =>
             /\ hashfn(mods, heap, a).err = ""
             /\ hashfn(mods, heap, a) = hashfn(mods, heap, b)

\* C12: x.update(...) returns an instance of x's type whose fields are x's
\* with the named field replaced (equal to x when none is named); for a
\* memoized type it is the object the cache holds for that field tuple.
C12_UpdateLaw ==
    ret.op = "update" =>
        /\ ret.err = ""
        /\ ret.val \in DOMAIN heap
        /\ heap[ret.val].cls = ret.cls
        /\ ArgsEq(heap, heap[ret.val].vals, ret.args)
        /\ ret.cls \in memo_cls =>
              \E e \in memo_cache : e.cls = ret.cls /\ e.obj = ret.val

\* the arguments pass every check of the class's __init__
ValidArgs(c, args) ==
    /\ Len(args) = Len(ClassFields(mods, c))
    /\ init_checks(mods, heap, c.mod, ClassFields(mods, c), args, 1).err = ""

\* C13: a call of a Sum's own class raises, with an error that is not the
\* error of a field check (TypeError), and returns no instance; a call of one
\* of its constructors with valid arguments returns an instance of a subclass
\* of the Sum's class.
C13_AbstractBase ==
    /\ (ret.op = "new" /\ IsSumBase(mods, ret.cls)) =>
          (ret.err \notin {"", "TypeError"} /\ ret.val = 0)
    /\ (ret.op = "new" /\ ret.cls.sup # "" /\ ValidArgs(ret.cls, ret.args)) =>
          /\ ret.err = ""
          /\ ret.val \in DOMAIN heap
          /\ heap[ret.val].cls.sup = ret.cls.sup
          /\ IsSumBase(mods, Cls(ret.cls.mod, ret.cls.sup, ""))

\* the runtime kind a built-in type names
KindNamed(typ) ==
    CASE typ = "string" -> "str"
      [] typ = "int" -> "int"
      [] typ = "float" -> "float"
      [] OTHER -> "bool"

\* C14: a call with one argument for a field of a built-in type succeeds
\* exactly when the argument's runtime kind is the kind the type names (a bool
\* is no int), and for object exactly when the argument is not None.
C14_ExactKinds ==
    (ret.op = "new" /\ Len(ret.args) = 1) =>
        LET typ == ClassFields(mods, ret.cls)[1].type
            x == ret.args[1]
        IN typ \in builtin_checks =>
             ((ret.err = "") <=> (IF typ = "object" THEN x.k # "none" ELSE x.k = KindNamed(typ)))

\* C15: a constructor call (with one argument per field) that raises raises
\* the field-check error at the first field, in declared order, whose argument
\* its check rejects; it returns no instance, assigns no field of any instance
\* and leaves the caches as they were.
C15_FirstInvalidField ==
    [][(/\ ret'.op = "new"
        /\ ret'.err # ""
        /\ ~IsSumBase(mods, ret'.cls)
        /\ Len(ret'.args) = Len(ClassFields(mods, ret'.cls))) =>
          /\ ret'.err = "TypeError"
          /\ ret'.at = init_checks(mods, heap, ret'.cls.mod,
                                   ClassFields(mods, ret'.cls), ret'.args, 1).at
          /\ ret'.val = 0
          /\ heap' = heap
          /\ memo_cache' = memo_cache]_vars

\* C16: a successful construction of a memoized type returns an instance
\* that existed before only if that instance is still referenced from outside
\* the cache; when no referenced instance of the type has equal field values
\* (none was made, or every reference to it has been released), it returns a
\* newly allocated object, different from every earlier one, and the cache
\* holds that object afterwards.
C16_WeakCache ==
    [][(ret'.op = "new" /\ ret'.err = "" /\ ret'.cls \in memo_cls) =>
         /\ ret'.val \in DOMAIN heap => ret'.val \in Live
         /\ (\A o \in Live : ~(heap[o].cls = ret'.cls /\ ArgsEq(heap, heap[o].vals, ret'.args))) =>
               /\ ret'.val \notin DOMAIN heap
               /\ \E e \in memo_cache' : e.cls = ret'.cls /\ e.obj = ret'.val
         /\ \A e \in memo_cache' : e.obj \in Reach(heap', refs')]_vars

\* C16 witness: after the first instance was reclaimed, a construction of a
\* memoized type returned a second object, which is the only instance the
\* cache holds.
C16_Witness ==
    /\ ret.op = "new"
    /\ ret.err = ""
    /\ ret.cls \in memo_cls
    /\ heap[1] = DeadObj
    /\ ret.val = 2
    /\ \A e \in memo_cache : e.obj = 2

\* x is an instance of the type typ of module m: of the Product typ itself, or
\* of one of the constructors of the Sum typ
InstanceOfType(h, m, typ, x) ==
    /\ x.k = "obj"
    /\ h[x.n].cls.mod = m
    /\ h[x.n].cls.name = typ \/ h[x.n].cls.sup = typ

\* C17: the grammar whose constructor Add has fields of its own Sum expr and
\* whose constructor Tag has a field of the Product label declared after it
\* builds, and a call of Add or Tag (with one argument per field) succeeds
\* exactly when every argument is an instance of its field's type.
C17_RecursiveTypes ==
    /\ (ret.op = "ADT" /\ ret.g = "node") => (ret.err = "" /\ ret.val \in DOMAIN mods)
    /\ (/\ ret.op = "new"
        /\ ret.cls.name \in {"Add", "Tag"}
        /\ Len(ret.args) = Len(ClassFields(mods, ret.cls))) =>
          ((ret.err = "") <=>
             \A i \in DOMAIN ret.args :
                InstanceOfType(heap, ret.cls.mod, ClassFields(mods, ret.cls)[i].type, ret.args[i]))

\* C17 witness: Add was called with two instances of Const, a constructor of
\* Add's own Sum, and returned an instance.
C17_Witness ==
    /\ ret.op = "new"
    /\ ret.cls.name = "Add"
    /\ ret.err = ""
    /\ ret.val \in refs
    /\ \A i \in DOMAIN ret.args :
          ret.args[i].k = "obj" /\ heap[ret.args[i].n].cls.name = "Const"

\* C18: a successful construction that returns an instance that existed
\* before the call (a cache hit) leaves every field of that instance holding
\* the value it held before the call.
C18_HitKeepsFields ==
    [][(ret'.op = "new" /\ ret'.err = "" /\ ret'.val \in DOMAIN heap) =>
         heap'[ret'.val].vals = heap[ret'.val].vals]_vars

====
